---- MODULE Spec2Model ----
(***************************************************************************)
(* Model of invest_strategy_simulator.py: the Monte Carlo comparison of    *)
(* four portfolio strategies.  The script reads its parameters from the    *)
(* sidebar widgets, then for every strategy reseeds the NumPy generator,   *)
(* runs `simulations` trials and aggregates the final values.              *)
(*                                                                         *)
(* Arithmetic.  Amounts are whole currency units.  Monthly rates are kept  *)
(* as numerators over RateDen = 100 * 12, so that                          *)
(*   monthly_return = expected_return / 100 / 12 = expected_return/RateDen *)
(* and, with a standard-normal draw z written as z = w / sqrt(12),         *)
(*   monthly_std * z = volatility / 100 / sqrt(12) * z                     *)
(*                   = volatility * w / RateDen.                           *)
(* The stream of the generator is a sequence of such draws w, rounded to   *)
(* whole numbers.  A product value * (1 + r) is carried with finite        *)
(* precision: it is rounded down to a whole currency unit.                 *)
(***************************************************************************)
EXTENDS Integers, Sequences, FiniteSets, TLC

(* ------------------------------ bounds -------------------------------- *)
\* years is drawn from MinYears..MaxYears (the slider goes up to 30)
MaxYears == 2
\* monthly_dca is drawn from MinMonthlyDca..MaxMonthlyDca
MaxMonthlyDca == 1
\* the longer run has MaxExamples + ExtraSimulations trials
ExtraSimulations == 1

(* ------------------------- program constants --------------------------- *)
MinPrincipal == 1000
DefaultPrincipal == 100000
MinCurrentReturn == 0
DefaultCurrentReturn == 5
MinMonthlyDca == 0
MinYears == 1
MinBearYears == 0
MinExpectedReturn == 0
DefaultExpectedReturn == 6
MinVolatility == 0
DefaultVolatility == 12
DefaultBearReturn == -5
MaxBearReturn == 0
MinBearVolatility == 0
DefaultBearVolatility == 18
MinSimulations == 10
MonthsPerYear == 12
MaxExamples == 20
RateDen == 100 * 12

CHC == "Continue Holding and Contributing"
TPKC == "Take Profit and Keep Contributing"
TPKP == "Take Profit, Keep Principal Only"
SCHE == "Stop Contributing, Hold Existing"

\* np.random.seed(42) selects one fixed stream of standard-normal draws
\* (0.497, -0.138, 0.648, 1.523, -0.234, -0.234, 1.579, ...).  The model
\* keeps a prefix of it, as w = sqrt(12) * z rounded, and repeats it.
GaussStream == <<2, 0, 2, 5, -1, -1, 5>>

strategies == <<CHC, TPKC, TPKP, SCHE>>

TakeProfit == {TPKP, TPKC}
Contributing == {CHC, TPKC}

PercentileLevels == <<10, 25, 50, 75, 90>>

VARIABLES
    \* sidebar inputs
    principal, current_return_pct, monthly_dca, years, bear_years,
    expected_return, volatility, bear_return, bear_volatility, simulations,
    \* NumPy's global generator: the position of the next draw in the stream
    rng_pos,
    \* control: where the script is, the strategy of the outer loop, the
    \* number of iterations the trial loop has made
    pc, strategy_idx, trial,
    \* variables of the trial loop
    value, total_contribution, time_series, contrib_series, all_returns,
    final_values, time_series_examples, contribution_series_examples,
    \* results per strategy
    summary_stats, time_series_all_strategies,
    contribution_series_all_strategies, final_value_all_strategies,
    all_violin_data,
    \* observation logs (not program state): the position of the first draw
    \* of the last trial, and the returns the first strategy applied, per trial
    first_draw, returns_log

inputs == <<principal, current_return_pct, monthly_dca, years, bear_years,
            expected_return, volatility, bear_return, bear_volatility,
            simulations>>
trial_vars == <<value, total_contribution, time_series, contrib_series,
                all_returns, final_values, time_series_examples,
                contribution_series_examples>>
results == <<summary_stats, time_series_all_strategies,
             contribution_series_all_strategies, final_value_all_strategies,
             all_violin_data>>
vars == <<inputs, rng_pos, pc, strategy_idx, trial, trial_vars, results,
          first_draw, returns_log>>

(* ------------------ derived parameters, lines 71-80 -------------------- *)
\* principal is a multiple of 100 here, so initial_value is exact.  The four
\* monthly rates are numerators over RateDen (see the head of the module).
initial_value == (principal * (100 + current_return_pct)) \div 100
cost_basis == principal
monthly_return == expected_return
monthly_std == volatility
bear_monthly_return == bear_return
bear_monthly_std == bear_volatility
months == years * MonthsPerYear
bear_months == bear_years * MonthsPerYear
normal_months == months - bear_months

strategy == strategies[strategy_idx]

(* --------------------------- the generator ----------------------------- *)
\* np.random.seed(42): the generator returns to the start of its stream
SeedKeepsPosition(pos) == pos
Seed(pos) == 0

\* the draw at one position of the stream
Gauss(pos) == GaussStream[(pos % Len(GaussStream)) + 1]

\* np.random.normal(loc, scale, size) with the generator at pos
NormalShort(loc, scale, size, pos) ==
    [k \in 1..(size - 1) |-> loc + scale * Gauss(pos + k - 1)]
Normal(loc, scale, size, pos) ==
    [k \in 1..size |-> loc + scale * Gauss(pos + k - 1)]

\* the generator's position after a call that returned size draws
AdvanceStuck(pos, size) == pos
Advance(pos, size) == pos + size

\* lines 96-98: the bear draws, then the normal draws, concatenated
AllReturnsNormalFirst(pos) ==
    Normal(monthly_return, monthly_std, normal_months, pos)
      \o Normal(bear_monthly_return, bear_monthly_std, bear_months,
                Advance(pos, normal_months))
AllReturns(pos) ==
    Normal(bear_monthly_return, bear_monthly_std, bear_months, pos)
      \o Normal(monthly_return, monthly_std, normal_months,
                Advance(pos, bear_months))

(* --------------------------- one trial --------------------------------- *)
\* lines 87 and 92-93: the value the monthly updates start from
StartValueCarried(s, prev) == IF trial = 0 THEN initial_value ELSE prev
StartValue(s, prev) == IF s \in TakeProfit THEN cost_basis ELSE initial_value

\* lines 88 and 94
StartContribution(s, prev) == IF s \in TakeProfit THEN cost_basis ELSE principal

\* lines 89-90: the month-0 observations, taken before the take-profit reset
FirstValueObservation(s) == initial_value
FirstContributionObservation(s) == principal

\* value * (1 + r), r = rn / RateDen
Grow(v, rn) == (v * (RateDen + rn)) \div RateDen

\* lines 101-105
NextValueNoDeposit(s, v, rn) == Grow(v, rn)
NextValue(s, v, rn) ==
    IF s \in Contributing THEN Grow(v + monthly_dca, rn) ELSE Grow(v, rn)

NextContributionAlways(s, c) == c + monthly_dca
NextContributionNever(s, c) == c
NextContribution(s, c) == IF s \in Contributing THEN c + monthly_dca ELSE c

\* lines 100-108: the series after the updates for returns[1..k]
RECURSIVE ValueSeries(_, _, _, _)
ValueSeries(s, v0, returns, k) ==
    IF k = 0 THEN <<v0>>
    ELSE LET prev == ValueSeries(s, v0, returns, k - 1)
         IN  Append(prev, NextValue(s, prev[k], returns[k]))

RECURSIVE ContributionSeries(_, _, _)
ContributionSeries(s, c0, k) ==
    IF k = 0 THEN <<c0>>
    ELSE LET prev == ContributionSeries(s, c0, k - 1)
         IN  Append(prev, NextContribution(s, prev[k]))

\* line 111: the examples kept for the charts
Keep(examples, series) ==
    IF Len(examples) < MaxExamples THEN Append(examples, series) ELSE examples

(* --------------------------- aggregation ------------------------------- *)
RECURSIVE Insert(_, _)
Insert(sorted, x) ==
    IF sorted = <<>> THEN <<x>>
    ELSE IF x <= Head(sorted) THEN <<x>> \o sorted
    ELSE <<Head(sorted)>> \o Insert(Tail(sorted), x)

RECURSIVE Sorted(_)
Sorted(seq) == IF seq = <<>> THEN <<>> ELSE Insert(Sorted(Tail(seq)), Head(seq))

\* np.percentile(a, q): linear interpolation between order statistics,
\* then int(v) of line 116
Percentile(a, q) ==
    LET srt == Sorted(a)
        t == (Len(a) - 1) * q
        lo == t \div 100 + 1
        hi == IF lo < Len(a) THEN lo + 1 ELSE lo
    IN  srt[lo] + ((srt[hi] - srt[lo]) * (t % 100)) \div 100

Percentiles(a) == [i \in 1..Len(PercentileLevels) |-> Percentile(a, PercentileLevels[i])]

(* ------------------------------ Init ----------------------------------- *)
Init ==
    /\ principal \in {MinPrincipal, DefaultPrincipal}
    /\ current_return_pct \in {MinCurrentReturn, DefaultCurrentReturn}
    /\ monthly_dca \in MinMonthlyDca..MaxMonthlyDca
    /\ years \in MinYears..MaxYears
    /\ bear_years \in MinBearYears..years
    /\ expected_return \in {MinExpectedReturn, DefaultExpectedReturn}
    /\ volatility \in {MinVolatility, DefaultVolatility}
    /\ bear_return \in {DefaultBearReturn, MaxBearReturn}
    /\ bear_volatility = IF volatility = MinVolatility
                            THEN MinBearVolatility ELSE DefaultBearVolatility
    /\ simulations \in {MinSimulations, MaxExamples + ExtraSimulations}
    /\ rng_pos = 0
    /\ pc = "strategy"
    /\ strategy_idx = 1
    /\ trial = 0
    /\ value = 0
    /\ total_contribution = 0
    /\ time_series = <<>>
    /\ contrib_series = <<>>
    /\ all_returns = <<>>
    /\ final_values = <<>>
    /\ time_series_examples = <<>>
    /\ contribution_series_examples = <<>>
    /\ summary_stats = <<>>
    /\ time_series_all_strategies = <<>>
    /\ contribution_series_all_strategies = <<>>
    /\ final_value_all_strategies = <<>>
    /\ all_violin_data = <<>>
    /\ first_draw = 0
    /\ returns_log = <<>>

(* ----------------------------- actions --------------------------------- *)
\* lines 70-84: the head of one iteration of the strategy loop
BeginStrategy ==
    /\ pc = "strategy"
    /\ rng_pos' = Seed(rng_pos)
    /\ final_values' = <<>>
    /\ time_series_examples' = <<>>
    /\ contribution_series_examples' = <<>>
    /\ trial' = 0
    /\ pc' = "trial"
    /\ UNCHANGED <<inputs, strategy_idx, value, total_contribution,
                   time_series, contrib_series, all_returns, results,
                   first_draw, returns_log>>

\* lines 86-113: one iteration of the trial loop (each \E names one value)
RunTrial ==
    /\ pc = "trial"
    /\ trial < simulations
    /\ \E returns \in {AllReturns(rng_pos)} :
       \E values \in {ValueSeries(strategy, StartValue(strategy, value),
                                 returns, Len(returns))} :
       \E contribs \in {ContributionSeries(strategy,
                           StartContribution(strategy, total_contribution),
                           Len(returns))} :
       \E ts \in {<<FirstValueObservation(strategy)>> \o Tail(values)} :
       \E cs \in {<<FirstContributionObservation(strategy)>> \o Tail(contribs)} :
           /\ all_returns' = returns
           /\ rng_pos' = Advance(Advance(rng_pos, bear_months), normal_months)
           /\ first_draw' = rng_pos
           /\ value' = values[Len(values)]
           /\ total_contribution' = contribs[Len(contribs)]
           /\ time_series' = ts
           /\ contrib_series' = cs
           /\ final_values' = Append(final_values, values[Len(values)])
           /\ time_series_examples' = Keep(time_series_examples, ts)
           /\ contribution_series_examples' =
                  Keep(contribution_series_examples, cs)
           /\ returns_log' = IF strategy_idx = 1
                                 THEN Append(returns_log, returns)
                                 ELSE returns_log
    /\ trial' = trial + 1
    /\ UNCHANGED <<inputs, pc, strategy_idx, results>>

\* lines 115-120: the tail of one iteration of the strategy loop
EndStrategy ==
    /\ pc = "trial"
    /\ trial = simulations
    /\ summary_stats' = (strategy :> Percentiles(final_values)) @@ summary_stats
    /\ time_series_all_strategies' =
           (strategy :> time_series_examples) @@ time_series_all_strategies
    /\ contribution_series_all_strategies' =
           (strategy :> contribution_series_examples)
               @@ contribution_series_all_strategies
    /\ final_value_all_strategies' =
           (strategy :> final_values) @@ final_value_all_strategies
    /\ all_violin_data' = all_violin_data
           \o [i \in 1..Len(final_values) |-> <<strategy, final_values[i]>>]
    /\ IF strategy_idx < Len(strategies)
          THEN /\ strategy_idx' = strategy_idx + 1
               /\ pc' = "strategy"
          ELSE /\ strategy_idx' = strategy_idx
               /\ pc' = "done"
    /\ UNCHANGED <<inputs, rng_pos, trial, trial_vars, first_draw, returns_log>>

Next == BeginStrategy \/ RunTrial \/ EndStrategy

Spec == Init /\ [][Next]_vars

TypeOK ==
    /\ pc \in {"strategy", "trial", "done"}
    /\ strategy_idx \in 1..Len(strategies)
    /\ trial \in 0..simulations
    /\ rng_pos >= 0

\* The sidebar widgets (lines 43-53) keep every input inside its range, so
\* the strategy loop never sees a negative amount, a negative volatility,
\* bear_months > months or simulations < 1.
InputsValid ==
    /\ principal >= MinPrincipal
    /\ current_return_pct >= MinCurrentReturn
    /\ monthly_dca >= MinMonthlyDca
    /\ years >= MinYears
    /\ bear_months >= 0 /\ bear_months <= months
    /\ volatility >= MinVolatility
    /\ bear_volatility >= MinBearVolatility
    /\ simulations >= MinSimulations

(* ------------------------------ claims --------------------------------- *)
\* a trial of the current strategy has run and its series are in place; the
\* results per strategy change only when the script leaves the trial loop
TrialRan == pc = "trial" /\ trial >= 1

NonContributing == {SCHE, TPKP}

\* C1: for the two take-profit strategies the value recorded at month 0 of
\* every trial's time series equals cost_basis, not initial_value.
C1_MonthZeroIsCostBasis ==
    (TrialRan /\ strategy \in TakeProfit) => time_series[1] = cost_basis

\* C2: the generator is reset to the same seed before each strategy, so the
\* return applied to trial i at month m is the same under all strategies.
C2_SameReturnsPerStrategy ==
    /\ (pc = "trial" /\ trial = 0) => rng_pos = 0
    /\ TrialRan => /\ trial <= Len(returns_log)
                   /\ all_returns = returns_log[trial]
C2_Witness ==
    /\ TrialRan /\ strategy_idx = Len(strategies) /\ trial = simulations
    /\ volatility > 0 /\ bear_volatility > 0
    /\ returns_log[1] # returns_log[2]

\* C3: after a strategy's run its list of final values has simulations
\* entries and every retained value and contribution series has months + 1
\* observations, also when bear_months is 0 or equals months.
C3_Lengths ==
    pc # "trial" => \A s \in DOMAIN final_value_all_strategies :
        /\ Len(final_value_all_strategies[s]) = simulations
        /\ \A i \in 1..Len(time_series_all_strategies[s]) :
               Len(time_series_all_strategies[s][i]) = months + 1
        /\ \A i \in 1..Len(contribution_series_all_strategies[s]) :
               Len(contribution_series_all_strategies[s][i]) = months + 1
        /\ Len(time_series_all_strategies[s]) > 0
        /\ Len(contribution_series_all_strategies[s])
               = Len(time_series_all_strategies[s])
C3_Witness ==
    /\ pc = "done"
    /\ bear_months = months
    /\ simulations > MaxExamples
    /\ Len(time_series_all_strategies[SCHE]) = MaxExamples

\* C4: for the contributing strategies the cumulative contribution recorded
\* at month m of every trial is principal + m * monthly_dca.
C4_ContributionLinear ==
    /\ (TrialRan /\ strategy \in Contributing) =>
           /\ Len(contrib_series) = months + 1
           /\ \A m \in 0..months :
                  contrib_series[m + 1] = principal + m * monthly_dca
    /\ pc # "trial" =>
       \A s \in Contributing \cap DOMAIN contribution_series_all_strategies :
           \A i \in 1..Len(contribution_series_all_strategies[s]) :
               \A m \in 0..months :
                   contribution_series_all_strategies[s][i][m + 1]
                       = cost_basis + m * monthly_dca
C4_Witness ==
    /\ pc = "done" /\ monthly_dca > 0 /\ simulations > MaxExamples
    /\ contribution_series_all_strategies[TPKC][MaxExamples][months + 1]
           = principal + months * monthly_dca

\* C5: for the non-contributing strategies the contribution series of every
\* trial is constant, equal to principal (= cost_basis), over all months + 1
\* observations, whatever monthly_dca and the returns are.
C5_ContributionConstant ==
    /\ (TrialRan /\ strategy \in NonContributing) =>
           /\ Len(contrib_series) = months + 1
           /\ \A m \in 1..(months + 1) : contrib_series[m] = principal
    /\ pc # "trial" =>
       \A s \in NonContributing \cap DOMAIN contribution_series_all_strategies :
           \A i \in 1..Len(contribution_series_all_strategies[s]) :
               \A m \in 1..(months + 1) :
                   contribution_series_all_strategies[s][i][m] = cost_basis
C5_Witness ==
    /\ pc = "done" /\ monthly_dca > 0 /\ volatility > 0
    /\ contribution_series_all_strategies[TPKP][1][months + 1] = principal
    /\ contribution_series_all_strategies[SCHE][1][months + 1] = principal

\* the case of C6: no volatility in either regime, a positive monthly
\* contribution, and a mean return >= 0 in every regime that has months
ZeroVolatilityGrowth ==
    /\ volatility = 0 /\ bear_volatility = 0
    /\ monthly_dca > 0
    /\ (normal_months > 0 => expected_return >= 0)
    /\ (bear_months > 0 => bear_return >= 0)

Exceeds(s, t) ==
    \A i \in 1..simulations :
        final_value_all_strategies[s][i] > final_value_all_strategies[t][i]

\* C6 as stated: with zero volatility, monthly_dca > 0 and mean return >= 0
\* the final value of each contributing strategy is strictly greater than
\* the final value of each non-contributing strategy.
C6_ContributingExceedsAll ==
    (pc = "done" /\ ZeroVolatilityGrowth) =>
        \A s \in Contributing : \A t \in NonContributing : Exceeds(s, t)

\* C6 as amended: the same, for every pair in which the contributing
\* strategy does not start from a lower value than the other one, that is
\* every pair but (Take Profit and Keep Contributing, Stop Contributing,
\* Hold Existing) when current_return_pct > 0.
C6_ContributingExceedsSameStart ==
    (pc = "done" /\ ZeroVolatilityGrowth) =>
        \A s \in Contributing : \A t \in NonContributing :
            (s = TPKC /\ t = SCHE /\ current_return_pct > 0) \/ Exceeds(s, t)
C6_Witness ==
    /\ pc = "done" /\ ZeroVolatilityGrowth
    /\ current_return_pct > 0 /\ expected_return > 0
    /\ bear_months > 0 /\ normal_months > 0
    /\ Exceeds(CHC, SCHE) /\ Exceeds(TPKC, TPKP) /\ Exceeds(CHC, TPKP)
    /\ ~Exceeds(TPKC, SCHE)

\* C8: the return sequence of a trial has months entries; the entry applied
\* at update step k is drawn with the bear parameters exactly when
\* k <= bear_months and with the normal parameters otherwise.
C8_BearThenNormal ==
    TrialRan =>
        /\ Len(all_returns) = months
        /\ \A k \in 1..months :
               all_returns[k] =
                   IF k <= bear_months
                   THEN bear_monthly_return
                            + bear_monthly_std * Gauss(first_draw + k - 1)
                   ELSE monthly_return
                            + monthly_std * Gauss(first_draw + k - 1)
C8_Witness ==
    /\ TrialRan /\ trial = simulations
    /\ bear_months > 0 /\ normal_months > 0
    /\ volatility > 0 /\ bear_volatility > 0
    /\ all_returns[bear_months] # all_returns[bear_months + 1]

\* C9: within one strategy the generator is seeded once, before the first
\* trial, and never reset between trials: trial i (from 0) consumes the
\* stream positions i * months .. (i + 1) * months - 1.
C9_ConsecutiveSlices ==
    TrialRan =>
        /\ first_draw = (trial - 1) * months
        /\ rng_pos = trial * months
C9_Witness ==
    /\ TrialRan /\ trial = simulations /\ strategy_idx = Len(strategies)
    /\ first_draw > 0 /\ rng_pos = simulations * months

====
